---- MODULE Spec2Model ----
(***************************************************************************)
(* Spam gate and email dispatch of the luminarcapital site.                *)
(*                                                                         *)
(*   - handler            pages/api/email.ts                               *)
(*   - validateHoneypot, validateTimestamp, validateRecaptcha,             *)
(*     validateSpam       the spam validation utilities                    *)
(*                                                                         *)
(* JavaScript values are records [t, s, n, nan]: t is the typeof tag, s    *)
(* the code units of a string, n the numeric value (of a number, or of a   *)
(* string under ToNumber) and nan tells that ToNumber gives NaN.  Strings  *)
(* the code inspects (trim, includes) are kept one character per element;  *)
(* messages the code only passes along are kept as a single element.       *)
(* Scores are integers in ten-thousandths (0.3 is 3000).                   *)
(***************************************************************************)
EXTENDS Integers, Sequences, FiniteSets, TLC

VARIABLES
  now,        \* Date.now(), in ms
  env,        \* process.env, fixed at process start
  hpc,        \* handler position: "idle", "awaitSend", "done"
  req,        \* the request the handler is serving
  handledAt,  \* Date.now() as read by the handler for this request
  sendCalls,  \* arguments of the sendEmail calls made for this request
  sendOut,    \* how sendEmail settled: [state, value]
  res,        \* responses written for this request: [status, body]
  gpc,        \* validateSpam position: "idle", "awaitFetch", "awaitJson", "done"
  gin,        \* arguments of the running validateSpam call
  checks,     \* checks run by this validateSpam call, in order
  fetchCalls, \* request bodies of the fetch calls made by this call
  httpRes,    \* the response fetch resolved with
  rcOut,      \* outcome of validateRecaptcha: [state, ret]
  gout,       \* result of validateSpam
  form,       \* a form's submission: onSubmit's position and the form state
  handed      \* mails of this submission handed to sendEmail, in order

vars == <<now, env, hpc, req, handledAt, sendCalls, sendOut, res,
          gpc, gin, checks, fetchCalls, httpRes, rcOut, gout, form, handed>>

hvars == <<hpc, req, handledAt, sendCalls, sendOut, res>>
gvars == <<gpc, gin, checks, fetchCalls, httpRes, rcOut, gout>>
fvars == <<form, handed>>

----------------------------------------------------------------------------
(* Bounds *)

MaxTicks == 2          \* clock advances observed in one run
MaxHoneypotLen == 3    \* length of the honeypot strings

(* Program constants *)

MinElapsedMs == 3000
MaxElapsedMs == 1800000
ScoreThreshold == 3000

(* The clock starts here; any value above MaxElapsedMs would do. *)
Now0 == 2000000

----------------------------------------------------------------------------
(* JavaScript values *)

Undefined == [t |-> "undefined", s |-> <<>>, n |-> 0, nan |-> TRUE]
Null == [t |-> "null", s |-> <<>>, n |-> 0, nan |-> FALSE]
Num(k) == [t |-> "number", s |-> <<>>, n |-> k, nan |-> FALSE]
Bool(b) == [t |-> "boolean", s |-> <<>>, n |-> IF b THEN 1 ELSE 0, nan |-> FALSE]
Str(chars) == [t |-> "string", s |-> chars, n |-> 0, nan |-> chars # <<>>]
NumStr(chars, k) == [t |-> "string", s |-> chars, n |-> k, nan |-> FALSE]
Obj(id) == [t |-> "object", s |-> <<>>, n |-> id, nan |-> TRUE]

(* ToBoolean *)
Truthy(v) ==
  CASE v.t = "undefined" -> FALSE
    [] v.t = "null" -> FALSE
    [] v.t = "string" -> v.s # <<>>
    [] v.t = "number" -> v.n # 0
    [] v.t = "boolean" -> v.n = 1
    [] OTHER -> TRUE

(* a - b on numbers: [nan, n] *)
Minus(a, b) == [nan |-> b.nan, n |-> IF b.nan THEN 0 ELSE a - b.n]

(* relational operators with a NaN-able left side: NaN compares false *)
Lt(d, k) == ~d.nan /\ d.n < k
Gt(d, k) == ~d.nan /\ d.n > k
Ge(d, k) == ~d.nan /\ d.n >= k
Le(d, k) == ~d.nan /\ d.n <= k

WhiteSpace == {" ", "\t"}

RECURSIVE trimStart(_)
trimStart(s) ==
  IF s # <<>> /\ Head(s) \in WhiteSpace THEN trimStart(Tail(s)) ELSE s

RECURSIVE trimEnd(_)
trimEnd(s) ==
  IF s # <<>> /\ s[Len(s)] \in WhiteSpace
  THEN trimEnd(SubSeq(s, 1, Len(s) - 1)) ELSE s

(* String.prototype.trim *)
trim(s) == trimEnd(trimStart(s))

(* String.prototype.includes *)
includes(s, sub) ==
  \E i \in 0..(Len(s) - Len(sub)) : SubSeq(s, i + 1, i + Len(sub)) = sub

----------------------------------------------------------------------------
(* mutant: the value is compared without trim *)
validateHoneypot_noTrim(honeypotValue) ==
  ~Truthy(honeypotValue) \/ honeypotValue.s = <<>>

(* validateHoneypot *)

validateHoneypot(honeypotValue) ==
  ~Truthy(honeypotValue) \/ trim(honeypotValue.s) = <<>>

(* mutant: the upper limit excluded *)
validateTimestamp_exclusive(timestamp, clock) ==
  LET elapsed == Minus(clock, timestamp)
  IN Ge(elapsed, MinElapsedMs) /\ Lt(elapsed, MaxElapsedMs)

(* validateTimestamp, with Date.now() = clock *)
validateTimestamp(timestamp, clock) ==
  LET elapsed == Minus(clock, timestamp)
  IN Ge(elapsed, MinElapsedMs) /\ Le(elapsed, MaxElapsedMs)

----------------------------------------------------------------------------
(* process.env *)

SecretKeys == {Undefined, Str(<<>>), Str(<<"6Lc-secret">>)}

Mailboxes ==
  { [PARTNER_EMAIL |-> Undefined, FINANCING_EMAIL |-> Undefined,
     RECIPIENT_EMAIL |-> Undefined],
    [PARTNER_EMAIL |-> Str(<<"partner@env">>),
     FINANCING_EMAIL |-> Str(<<"financing@env">>),
     RECIPIENT_EMAIL |-> Str(<<"recipient@env">>)] }

Envs ==
  { [RECAPTCHA_SECRET_KEY |-> k, PARTNER_EMAIL |-> m.PARTNER_EMAIL,
     FINANCING_EMAIL |-> m.FINANCING_EMAIL,
     RECIPIENT_EMAIL |-> m.RECIPIENT_EMAIL] : k \in SecretKeys, m \in Mailboxes }

----------------------------------------------------------------------------
(* Requests to /api/email *)

HoneypotChars == {" ", "x"}

RECURSIVE StringsUpTo(_, _)
StringsUpTo(chars, k) ==
  IF k = 0 THEN {<<>>}
  ELSE LET shorter == StringsUpTo(chars, k - 1)
       IN shorter \cup {Append(s, c) : s \in shorter, c \in chars}

HoneypotStrings == {Str(s) : s \in StringsUpTo(HoneypotChars, MaxHoneypotLen)}

(* absent, a string, or a truthy value that has no trim method *)
Honeypots == {Undefined, Num(5)} \cup HoneypotStrings

(* absent, 0, form start times around both limits, one in the future, and
   a value ToNumber maps to NaN *)
Timestamps ==
  {Undefined, Num(0), Num(Now0 - 1000), Num(Now0 - (MinElapsedMs - 1)),
   Num(Now0 - (MaxElapsedMs - 1)), Num(Now0 + 1), Str(<<"a", "b", "c">>)}

Partner == <<"P", "a", "r", "t", "n", "e", "r">>
Financing == <<"F", "i", "n", "a", "n", "c", "i", "n", "g">>

Subjects ==
  {Undefined, Num(7), Str(Partner), Str(<<"M", "y", " ">> \o Financing),
   Str(Financing \o <<" ">> \o Partner),
   Str(<<"p", "a", "r", "t", "n", "e", "r">>)}

Destinations == {Undefined, Str(<<>>), Str(<<"user@example.com">>)}

HtmlMessages == {Str(<<"<p>admin</p>">>), Str(<<"<p>user</p>">>)}

Bodies ==
  [to : Destinations, subject : Subjects, htmlMessage : HtmlMessages,
   honeypot : Honeypots, timestamp : Timestamps]

Methods == {"POST", "GET"}

Requests == [method : Methods, body : Bodies \cup {Null}]

NoRequest == [method |-> "none", body |-> Null]

(* what sendEmail can answer *)
ProviderResults == {Obj(1), Obj(2)}
SendErrors == {Str(<<"SMTP timeout">>), Str(<<"Invalid login">>)}

----------------------------------------------------------------------------
(* handler *)

Envelope(success, response, error) ==
  [success |-> success, response |-> response, error |-> error]

MethodNotAllowed ==
  [status |-> 405, body |-> [error |-> Str(<<"Method not allowed">>)]]

SilentDrop == [status |-> 200, body |-> Envelope(TRUE, Null, Null)]

(* mutant: the provider result is left out of the answer *)
Sent_withoutResult(response) ==
  [status |-> 200, body |-> Envelope(TRUE, Null, Null)]

Sent(response) == [status |-> 200, body |-> Envelope(TRUE, response, Null)]

(* the catch block *)
Caught(message) == [status |-> 500, body |-> Envelope(FALSE, Null, message)]

(* mutant: GET is let through *)
methodRejected_getAllowed(method) == method # "POST" /\ method # "GET"

(* req.method !== 'POST' *)
methodRejected(method) == method # "POST"

(* const { ... } = req.body throws on null *)
destructureThrows(body) == body = Null

(* honeypot.trim() on a truthy value without a trim method throws *)
honeypotThrows(honeypot) == Truthy(honeypot) /\ honeypot.t # "string"

(* mutant: the comparison with '' inverted *)
honeypotFilled_inverted(honeypot) ==
  Truthy(honeypot) /\ trim(honeypot.s) = <<>>

(* honeypot && honeypot.trim() !== '' *)
honeypotFilled(honeypot) == Truthy(honeypot) /\ trim(honeypot.s) # <<>>

(* mutant: the lower limit forgotten *)
suspiciousTiming_noMinimum(timestamp, clock) ==
  /\ Truthy(timestamp)
  /\ LET elapsed == Minus(clock, timestamp)
     IN Gt(elapsed, MaxElapsedMs)

(* if (timestamp) { elapsed < 3000 || elapsed > 1800000 } *)
suspiciousTiming(timestamp, clock) ==
  /\ Truthy(timestamp)
  /\ LET elapsed == Minus(clock, timestamp)
     IN Lt(elapsed, MinElapsedMs) \/ Gt(elapsed, MaxElapsedMs)

(* a || b *)
OrElse(a, b) == IF Truthy(a) THEN a ELSE b

(* subject.includes on a truthy value without an includes method throws *)
subjectThrows(to, subject) ==
  ~Truthy(to) /\ Truthy(subject) /\ subject.t # "string"

(* mutant: the Financing rule tried before the Partner rule *)
recipientEmail_financingFirst(to, subject, e) ==
  IF Truthy(to) THEN to
  ELSE IF Truthy(subject) /\ includes(subject.s, Financing)
       THEN OrElse(e.FINANCING_EMAIL,
                   Str(<<"clientsuccess@luminarcapital.com">>))
  ELSE IF Truthy(subject) /\ includes(subject.s, Partner)
       THEN OrElse(e.PARTNER_EMAIL, Str(<<"partners@luminarcapital.com">>))
  ELSE e.RECIPIENT_EMAIL

recipientEmail(to, subject, e) ==
  IF Truthy(to) THEN to
  ELSE IF Truthy(subject) /\ includes(subject.s, Partner)
       THEN OrElse(e.PARTNER_EMAIL, Str(<<"partners@luminarcapital.com">>))
  ELSE IF Truthy(subject) /\ includes(subject.s, Financing)
       THEN OrElse(e.FINANCING_EMAIL,
                   Str(<<"clientsuccess@luminarcapital.com">>))
  ELSE e.RECIPIENT_EMAIL

(* The handler up to its first await: the responses written and the
   sendEmail calls made. *)
handlerSync(r, clock, e) ==
  IF methodRejected(r.method)
  THEN [res |-> <<MethodNotAllowed>>, calls |-> <<>>]
  ELSE IF destructureThrows(r.body)
  THEN [res |-> <<Caught(Str(<<"Cannot destructure property of null">>))>>,
        calls |-> <<>>]
  ELSE IF honeypotThrows(r.body.honeypot)
  THEN [res |-> <<Caught(Str(<<"honeypot.trim is not a function">>))>>,
        calls |-> <<>>]
  ELSE IF honeypotFilled(r.body.honeypot)
  THEN [res |-> <<SilentDrop>>, calls |-> <<>>]
  ELSE IF suspiciousTiming(r.body.timestamp, clock)
  THEN [res |-> <<SilentDrop>>, calls |-> <<>>]
  ELSE IF subjectThrows(r.body.to, r.body.subject)
  THEN [res |-> <<Caught(Str(<<"subject.includes is not a function">>))>>,
        calls |-> <<>>]
  ELSE [res |-> <<>>,
        calls |-> << [to |-> recipientEmail(r.body.to, r.body.subject, e),
                      subject |-> r.body.subject,
                      htmlMessage |-> r.body.htmlMessage] >>]

----------------------------------------------------------------------------
(* Calls of validateSpam(recaptchaToken, honeypot, timestamp, action) *)

Tokens == {Str(<<"token-a">>), Str(<<"token-b">>)}

ContactForm == Str(<<"contact_form">>)
Actions == {Undefined, ContactForm, Str(<<"partner_form">>)}

(* honeypot: string | undefined *)
GateHoneypots == {Undefined} \cup HoneypotStrings

(* timestamp: number *)
GateTimestamps == {v \in Timestamps : v.t = "number"}

Calls ==
  [recaptchaToken : Tokens, honeypot : GateHoneypots,
   timestamp : GateTimestamps, action : Actions]

(* What the verification service can answer: any status, with a body that
   is not JSON, is JSON null, or is an object with these fields. *)
Statuses == {200, 500}
Scores ==
  {Undefined, Num(ScoreThreshold - 1), Num(ScoreThreshold), Num(9000),
   NumStr(<<"0.9">>, 9000)}
Payloads ==
  [success : {Bool(TRUE), Bool(FALSE), Undefined},
   score : Scores,
   action : Actions]
ResponseBodies ==
  {[kind |-> "text", data |-> Null], [kind |-> "json", data |-> Null]}
  \cup {[kind |-> "json", data |-> d] : d \in Payloads}
HttpResponses == [status : Statuses, body : ResponseBodies]

----------------------------------------------------------------------------
(* validateRecaptcha *)

(* action: string = 'contact_form' *)
expectedActionOf(call) ==
  IF call.action = Undefined THEN ContactForm ELSE call.action

(* mutant: only an unset key is refused *)
secretMissing_undefinedOnly(secretKey) == secretKey = Undefined

(* if (!secretKey) *)
secretMissing(secretKey) == ~Truthy(secretKey)

(* the fetch call: secret=${secretKey}&response=${token} *)
fetchRequest(secretKey, token) == [secret |-> secretKey, response |-> token]

(* ToNumber, as the relational operators apply it *)
ToNumber(v) == [nan |-> v.nan, n |-> v.n]

(* mutant: the threshold excluded *)
isValid_exclusive(data, expectedAction) ==
  /\ data.success = Bool(TRUE)
  /\ Gt([nan |-> data.score.nan, n |-> data.score.n], ScoreThreshold)
  /\ data.action = expectedAction

(* data.success === true && data.score >= 0.3 &&
   data.action === expectedAction *)
isValid(data, expectedAction) ==
  /\ data.success = Bool(TRUE)
  /\ Ge(ToNumber(data.score), ScoreThreshold)
  /\ data.action = expectedAction

(* The try block once fetch has resolved: response.json() rejects on a body
   that is not JSON, a property read on null throws, otherwise isValid is
   returned.  The HTTP status is not looked at. *)
tryBlock(response, expectedAction) ==
  IF response.body.kind # "json" THEN [state |-> "threw", ret |-> FALSE]
  ELSE IF response.body.data = Null THEN [state |-> "threw", ret |-> FALSE]
  ELSE [state |-> "returned",
        ret |-> isValid(response.body.data, expectedAction)]

(* catch (error) { return false } *)
catchBlock(outcome) ==
  IF outcome.state = "threw" THEN [state |-> "returned", ret |-> FALSE]
  ELSE outcome

----------------------------------------------------------------------------
(* validateSpam *)

HoneypotFilled == [isValid |-> FALSE, reason |-> Str(<<"Honeypot field filled">>)]
SuspiciousTiming == [isValid |-> FALSE, reason |-> Str(<<"Suspicious timing">>)]
RecaptchaFailed ==
  [isValid |-> FALSE, reason |-> Str(<<"reCAPTCHA validation failed">>)]
Valid == [isValid |-> TRUE]

Check(name, ok, clock) == [check |-> name, ok |-> ok, at |-> clock]

(* mutant: the verifier is called although the timing check failed *)
syncChecks_noShortCircuit(call, clock) ==
  LET h == Check("honeypot", validateHoneypot(call.honeypot), clock)
      t == Check("timing", validateTimestamp(call.timestamp, clock), clock)
  IN IF ~h.ok THEN <<h>>
     ELSE <<h, t, Check("recaptcha", FALSE, clock)>>

(* mutant: the timing check runs before the honeypot check *)
syncChecks_timingFirst(call, clock) ==
  LET h == Check("honeypot", validateHoneypot(call.honeypot), clock)
      t == Check("timing", validateTimestamp(call.timestamp, clock), clock)
  IN IF ~t.ok THEN <<t>>
     ELSE IF ~h.ok THEN <<t, h>>
     ELSE <<t, h, Check("recaptcha", FALSE, clock)>>

(* validateSpam up to its await: the checks run, in order *)
syncChecks(call, clock) ==
  LET h == Check("honeypot", validateHoneypot(call.honeypot), clock)
      t == Check("timing", validateTimestamp(call.timestamp, clock), clock)
  IN IF ~h.ok THEN <<h>>
     ELSE IF ~t.ok THEN <<h, t>>
     ELSE <<h, t, Check("recaptcha", FALSE, clock)>>

(* the result once validateRecaptcha has settled with outcome *)
afterRecaptcha(outcome) ==
  IF outcome.state = "threw" THEN [threw |-> TRUE]
  ELSE IF ~outcome.ret THEN RecaptchaFailed
  ELSE Valid

(* validateSpam state when no call is running *)

NoCall == [recaptchaToken |-> Undefined, honeypot |-> Undefined,
           timestamp |-> Undefined, action |-> Undefined]
NoResponse == [status |-> 0, body |-> [kind |-> "none", data |-> Null]]
NoOutcome == [state |-> "none", ret |-> FALSE]
NoResult == [isValid |-> FALSE, reason |-> Null]

GateIdle ==
  /\ gpc' = "idle"
  /\ gin' = NoCall
  /\ checks' = <<>>
  /\ fetchCalls' = <<>>
  /\ httpRes' = NoResponse
  /\ rcOut' = NoOutcome
  /\ gout' = NoResult

NotSent == [state |-> "none", value |-> Null]

HandlerIdle ==
  /\ hpc' = "idle"
  /\ req' = NoRequest
  /\ handledAt' = 0
  /\ sendCalls' = <<>>
  /\ sendOut' = NotSent
  /\ res' = <<>>

----------------------------------------------------------------------------
(* The partner and financing forms: onSubmit and browserSendEmail *)

(* const [honeypot, setHoneypot] = useState('') *)
FormHoneypots == HoneypotStrings

(* formStartTime = useRef(Date.now()): the form was mounted in the past *)
FormStartTimes == {v \in Timestamps : v.t = "number" /\ v.n > 0 /\ v.n <= Now0}

(* EMAIL_SUBJECT.PARTNER, EMAIL_SUBJECT.FINANCING *)
FormSubjects == {Str(Partner), Str(<<"M", "y", " ">> \o Financing)}

FormEmails == {Str(<<"user@example.com">>)}

NoForm ==
  [pc |-> "idle", consent |-> FALSE, honeypot |-> Str(<<>>),
   formStartTime |-> Num(0), subject |-> Undefined, email |-> Undefined]

(* browserSendEmail: axios.post('/api/email', {to, subject, htmlMessage,
   honeypot, timestamp}) *)
browserSendEmail(to, subject, htmlMessage, honeypot, timestamp) ==
  [method |-> "POST",
   body |-> [to |-> to, subject |-> subject, htmlMessage |-> htmlMessage,
             honeypot |-> honeypot, timestamp |-> timestamp]]

(* Send email to admin *)
adminRequest(f) ==
  browserSendEmail(Undefined, f.subject, Str(<<"<p>admin</p>">>),
                   f.honeypot, f.formStartTime)

(* Send confirmation email to user *)
userRequest(f) ==
  browserSendEmail(f.email, f.subject, Str(<<"<p>user</p>">>),
                   f.honeypot, f.formStartTime)

(* axios resolves on a 2xx status and rejects otherwise *)
axiosResolves(response) == response.status >= 200 /\ response.status < 300

----------------------------------------------------------------------------
Init ==
  /\ now = Now0
  /\ env \in Envs
  /\ hpc = "idle"
  /\ req = NoRequest
  /\ handledAt = 0
  /\ sendCalls = <<>>
  /\ sendOut = NotSent
  /\ res = <<>>
  /\ gpc = "idle"
  /\ gin = NoCall
  /\ checks = <<>>
  /\ fetchCalls = <<>>
  /\ httpRes = NoResponse
  /\ rcOut = NoOutcome
  /\ gout = NoResult
  /\ form = NoForm
  /\ handed = <<>>

(* Date.now() moves on while nothing runs or a call is awaited. *)
Tick ==
  /\ now < Now0 + MaxTicks
  /\ hpc # "done" /\ gpc # "done" /\ form.pc # "done"
  /\ now' = now + 1
  /\ UNCHANGED <<env, hvars, gvars, fvars>>

(* One invocation is in flight at a time; all its state is request-scoped,
   so the next invocation starts from fresh state. *)
Quiet == hpc = "idle" /\ gpc = "idle" /\ form.pc = "idle"

(* handler(req, res) up to the await of sendEmail *)
HandlerRequest ==
  /\ Quiet
  /\ \E r \in Requests :
       LET out == handlerSync(r, now, env)
       IN /\ req' = r
          /\ handledAt' = now
          /\ res' = out.res
          /\ sendCalls' = out.calls
          /\ sendOut' = IF out.calls = <<>> THEN NotSent
                        ELSE [state |-> "pending", value |-> Null]
          /\ hpc' = IF out.calls = <<>> THEN "done" ELSE "awaitSend"
  /\ UNCHANGED <<now, env, gvars, fvars>>

(* sendEmail resolves *)
SendEmailResolves ==
  /\ hpc = "awaitSend"
  /\ \E response \in ProviderResults :
       /\ sendOut' = [state |-> "resolved", value |-> response]
       /\ res' = Append(res, Sent(response))
  /\ hpc' = "done"
  /\ UNCHANGED <<now, env, req, handledAt, sendCalls, gvars, fvars>>

(* sendEmail throws *)
SendEmailThrows ==
  /\ hpc = "awaitSend"
  /\ \E error \in SendErrors :
       /\ sendOut' = [state |-> "threw", value |-> error]
       /\ res' = Append(res, Caught(error))
  /\ hpc' = "done"
  /\ UNCHANGED <<now, env, req, handledAt, sendCalls, gvars, fvars>>

(* the handler's promise settles and the request's state is dropped *)
HandlerReturns ==
  /\ hpc = "done"
  /\ form.pc = "idle"
  /\ HandlerIdle
  /\ UNCHANGED <<now, env, gvars, fvars>>

(* validateSpam(...) up to the await of fetch, or to its return when a
   check fails or the secret is missing *)
ValidateSpamCall ==
  /\ Quiet
  /\ \E call \in Calls :
       LET cs == syncChecks(call, now)
           last == cs[Len(cs)]
       IN /\ gin' = call
          /\ checks' = cs
          /\ IF last.check = "honeypot"
             THEN /\ gout' = HoneypotFilled
                  /\ gpc' = "done"
                  /\ UNCHANGED <<fetchCalls, rcOut>>
             ELSE IF last.check = "timing"
             THEN /\ gout' = SuspiciousTiming
                  /\ gpc' = "done"
                  /\ UNCHANGED <<fetchCalls, rcOut>>
             ELSE IF secretMissing(env.RECAPTCHA_SECRET_KEY)
             THEN /\ rcOut' = [state |-> "returned", ret |-> FALSE]
                  /\ gout' = afterRecaptcha(rcOut')
                  /\ gpc' = "done"
                  /\ UNCHANGED fetchCalls
             ELSE /\ fetchCalls' =
                       Append(fetchCalls,
                              fetchRequest(env.RECAPTCHA_SECRET_KEY,
                                           call.recaptchaToken))
                  /\ rcOut' = [state |-> "pending", ret |-> FALSE]
                  /\ gpc' = "awaitFetch"
                  /\ UNCHANGED gout
  /\ UNCHANGED <<now, env, hvars, httpRes, fvars>>

(* fetch rejects: network failure *)
FetchRejects ==
  /\ gpc = "awaitFetch"
  /\ rcOut' = catchBlock([state |-> "threw", ret |-> FALSE])
  /\ gout' = afterRecaptcha(rcOut')
  /\ gpc' = "done"
  /\ UNCHANGED <<now, env, hvars, gin, checks, fetchCalls, httpRes, fvars>>

(* fetch resolves with a response; response.json() is awaited *)
FetchResolves ==
  /\ gpc = "awaitFetch"
  /\ \E response \in HttpResponses : httpRes' = response
  /\ gpc' = "awaitJson"
  /\ UNCHANGED <<now, env, hvars, gin, checks, fetchCalls, rcOut, gout, fvars>>

(* response.json() settles; validateRecaptcha returns to validateSpam *)
JsonSettles ==
  /\ gpc = "awaitJson"
  /\ rcOut' = catchBlock(tryBlock(httpRes, expectedActionOf(gin)))
  /\ gout' = afterRecaptcha(rcOut')
  /\ gpc' = "done"
  /\ UNCHANGED <<now, env, hvars, gin, checks, fetchCalls, httpRes, fvars>>

(* the call's promise settles and its state is dropped *)
ValidateSpamReturns ==
  /\ gpc = "done"
  /\ GateIdle
  /\ UNCHANGED <<now, env, hvars, fvars>>

(* onSubmit up to the await of the admin request *)
OnSubmit ==
  /\ Quiet
  /\ \E consent \in BOOLEAN, honeypot \in FormHoneypots,
        start \in FormStartTimes, subject \in FormSubjects,
        email \in FormEmails :
       form' = [pc |-> IF consent THEN "postAdmin" ELSE "done",
                consent |-> consent, honeypot |-> honeypot,
                formStartTime |-> start, subject |-> subject,
                email |-> email]
  /\ handed' = <<>>
  /\ UNCHANGED <<now, env, hvars, gvars>>

(* the form's pending request reaches the handler, which runs up to the
   await of sendEmail *)
FormRequestArrives ==
  /\ form.pc \in {"postAdmin", "postUser"}
  /\ hpc = "idle"
  /\ LET admin == form.pc = "postAdmin"
         r == IF admin THEN adminRequest(form) ELSE userRequest(form)
         out == handlerSync(r, now, env)
     IN /\ req' = r
        /\ handledAt' = now
        /\ res' = out.res
        /\ sendCalls' = out.calls
        /\ sendOut' = IF out.calls = <<>> THEN NotSent
                      ELSE [state |-> "pending", value |-> Null]
        /\ hpc' = IF out.calls = <<>> THEN "done" ELSE "awaitSend"
        /\ handed' = IF out.calls = <<>> THEN handed
                     ELSE Append(handed, IF admin THEN "admin" ELSE "user")
        /\ form' = [form EXCEPT !.pc = IF admin THEN "awaitAdmin"
                                       ELSE "awaitUser"]
  /\ UNCHANGED <<now, env, gvars>>

(* the response reaches the form: after the admin request onSubmit goes on
   to the user request, unless axios rejected; after the user request it
   ends *)
FormResponse ==
  /\ form.pc \in {"awaitAdmin", "awaitUser"}
  /\ hpc = "done"
  /\ form' = [form EXCEPT !.pc =
                IF form.pc = "awaitAdmin" /\ axiosResolves(res[Len(res)])
                THEN "postUser" ELSE "done"]
  /\ HandlerIdle
  /\ UNCHANGED <<now, env, gvars, handed>>

Next ==
  \/ Tick
  \/ OnSubmit
  \/ FormRequestArrives
  \/ FormResponse
  \/ HandlerReturns
  \/ ValidateSpamCall
  \/ FetchRejects
  \/ FetchResolves
  \/ JsonSettles
  \/ ValidateSpamReturns
  \/ HandlerRequest
  \/ SendEmailResolves
  \/ SendEmailThrows

Spec == Init /\ [][Next]_vars

----------------------------------------------------------------------------
(* What the runtime guarantees: a settled promise's continuation runs, a
   received response is parsed, the clock moves.  The code sets no timeout
   and no AbortSignal on fetch, so nothing makes fetch settle when the
   verification service stays silent; likewise for sendEmail. *)
FairSpec ==
  /\ Spec
  /\ WF_vars(Tick)
  /\ WF_vars(JsonSettles)
  /\ WF_vars(ValidateSpamReturns)
  /\ WF_vars(HandlerReturns)
  /\ WF_vars(FormResponse)

----------------------------------------------------------------------------
(* Vocabulary of the properties, stated on the recorded inputs and outputs *)

OnlyWhiteSpace(chars) == \A i \in DOMAIN chars : chars[i] = " " \/ chars[i] = "\t"

HasVisibleChar(v) == v.t = "string" /\ ~OnlyWhiteSpace(v.s)

AbsentOrBlank(v) == v.t = "undefined" \/ (v.t = "string" /\ OnlyWhiteSpace(v.s))

Served == hpc # "idle" /\ req.method = "POST" /\ "honeypot" \in DOMAIN req.body

DroppedSilently ==
  /\ hpc = "done"
  /\ res = << [status |-> 200,
               body |-> [success |-> TRUE, response |-> Null, error |-> Null]] >>
  /\ sendCalls = <<>>

(* the request carries a number as timestamp and now - timestamp, as the
   handler read the clock, lies in [3000, 1800000] *)
CarriesTimestampInWindow ==
  /\ req.body.timestamp.t = "number"
  /\ handledAt - req.body.timestamp.n >= 3000
  /\ handledAt - req.body.timestamp.n <= 1800000

(* the request's timestamp is truthy and its elapsed time is a number
   outside [3000, 1800000] *)
TimestampOutsideWindow ==
  /\ req.body.timestamp.t = "number"
  /\ req.body.timestamp.n # 0
  /\ \/ handledAt - req.body.timestamp.n < 3000
     \/ handledAt - req.body.timestamp.n > 1800000

----------------------------------------------------------------------------
(* C1: a POST request whose honeypot is a string with at least one
   non-whitespace character is answered 200 with
   {success: true, response: null, error: null}, whatever its timestamp,
   subject and destination, and sendEmail is not invoked for it. *)
C1_HoneypotSilentDrop ==
  (Served /\ HasVisibleChar(req.body.honeypot)) => DroppedSilently

(* a filled honeypot with surrounding whitespace, an acceptable timestamp
   and an explicit destination, dropped *)
C1_Witness ==
  /\ Served
  /\ req.body.honeypot = Str(<<" ", "x", " ">>)
  /\ req.body.timestamp = Num(handledAt - 3000)
  /\ req.body.to = Str(<<"user@example.com">>)
  /\ DroppedSilently

(* C2, as claimed: sendEmail is invoked only if the honeypot is absent or
   blank and the request carries a timestamp whose elapsed time lies in
   [3000, 1800000]. *)
C2_SendOnlyWithTimestampInWindow ==
  (Served /\ sendCalls # <<>>) =>
    (AbsentOrBlank(req.body.honeypot) /\ CarriesTimestampInWindow)

(* C2, amended: sendEmail is invoked only if the honeypot is absent or blank
   and the timestamp is falsy (absent, 0) or its elapsed time is not a
   number outside [3000, 1800000]; a request with a filled string honeypot,
   or with an absent or blank honeypot and a timestamp outside the window,
   is dropped silently: 200, success-shaped, no mail. *)
C2_SendOnlyIfChecksPass ==
  /\ (Served /\ sendCalls # <<>>) =>
       (AbsentOrBlank(req.body.honeypot) /\ ~TimestampOutsideWindow)
  /\ (Served /\ (\/ HasVisibleChar(req.body.honeypot)
                 \/ (AbsentOrBlank(req.body.honeypot) /\ TimestampOutsideWindow)))
       => DroppedSilently

(* empty honeypot, timestamp = now - 1000: dropped *)
C2_Witness ==
  /\ Served
  /\ req.body.honeypot = Str(<<>>)
  /\ req.body.timestamp = Num(handledAt - 1000)
  /\ DroppedSilently

----------------------------------------------------------------------------
CheckNames == [i \in DOMAIN checks |-> checks[i].check]

RecaptchaCalls == Cardinality({i \in DOMAIN checks : checks[i].check = "recaptcha"})

GateRan == gpc # "idle"

(* the clock as validateSpam read it *)
CalledAt == checks[1].at

GateElapsed == CalledAt - gin.timestamp.n

GateTimingImplausible == GateElapsed < 3000 \/ GateElapsed > 1800000

(* C3: validateRecaptcha, and so the outbound call, is invoked zero times
   when the honeypot check or the timing check fails and at most once
   otherwise; the checks run in the order honeypot, timing, bot-score. *)
C3_ShortCircuit ==
  GateRan =>
    /\ CheckNames \in {<<"honeypot">>, <<"honeypot", "timing">>,
                       <<"honeypot", "timing", "recaptcha">>}
    /\ RecaptchaCalls <= 1
    /\ Len(fetchCalls) <= RecaptchaCalls
    /\ (HasVisibleChar(gin.honeypot) \/ GateTimingImplausible) =>
         (RecaptchaCalls = 0 /\ fetchCalls = <<>>)

(* the timing check failed after a clean honeypot: no verifier call *)
C3_Witness ==
  /\ gpc = "done"
  /\ AbsentOrBlank(gin.honeypot)
  /\ GateElapsed = 2999
  /\ CheckNames = <<"honeypot", "timing">>
  /\ fetchCalls = <<>>

(* C4: validateSpam returns the verdict of the first failing check in the
   order honeypot, timing, bot-score, and {isValid: true} without a reason
   iff all three pass. *)
C4_FirstFailingCheck ==
  gpc = "done" =>
    gout =
      IF HasVisibleChar(gin.honeypot)
      THEN [isValid |-> FALSE, reason |-> Str(<<"Honeypot field filled">>)]
      ELSE IF GateTimingImplausible
      THEN [isValid |-> FALSE, reason |-> Str(<<"Suspicious timing">>)]
      ELSE IF rcOut = [state |-> "returned", ret |-> FALSE]
      THEN [isValid |-> FALSE, reason |-> Str(<<"reCAPTCHA validation failed">>)]
      ELSE [isValid |-> TRUE]

(* honeypot filled and timing implausible too: the honeypot verdict *)
C4_Witness ==
  /\ gpc = "done"
  /\ HasVisibleChar(gin.honeypot)
  /\ GateElapsed < 0
  /\ gout.reason = Str(<<"Honeypot field filled">>)

----------------------------------------------------------------------------
(* the verification service was called and validateRecaptcha has settled *)
VerifierSettled == gpc = "done" /\ fetchCalls # <<>>

NetworkFailure == httpRes.status = 0

Non2xx == httpRes.status # 0 /\ (httpRes.status < 200 \/ httpRes.status > 299)

(* {success: boolean, score: number, action: string} *)
WellFormed(body) ==
  /\ body.kind = "json"
  /\ body.data # Null
  /\ body.data.success.t = "boolean"
  /\ body.data.score.t = "number"
  /\ body.data.action.t = "string"

ReturnedFalse == rcOut = [state |-> "returned", ret |-> FALSE]

(* C5: when the call to the verification service ends in a network failure,
   a non-2xx response (whatever its body) or a malformed payload,
   validateRecaptcha returns false and throws nothing. *)
C5_FailsClosed ==
  (VerifierSettled /\ (NetworkFailure \/ Non2xx \/ ~WellFormed(httpRes.body)))
    => ReturnedFalse

SecretUnset ==
  env.RECAPTCHA_SECRET_KEY = Undefined \/ env.RECAPTCHA_SECRET_KEY = Str(<<>>)

(* C6: with RECAPTCHA_SECRET_KEY unset or empty, validateRecaptcha returns
   false for every token and action, throws nothing and makes no outbound
   call; validateSpam never returns isValid: true. *)
C6_NoSecretAlwaysFalse ==
  SecretUnset =>
    /\ fetchCalls = <<>>
    /\ gpc \in {"idle", "done"}
    /\ RecaptchaCalls = 1 => ReturnedFalse
    /\ "isValid" \in DOMAIN gout /\ ~gout.isValid

(* an empty key, honeypot and timing clean: the verifier is reached and
   answers false without a call *)
C6_Witness ==
  /\ env.RECAPTCHA_SECRET_KEY = Str(<<>>)
  /\ gpc = "done"
  /\ CheckNames = <<"honeypot", "timing", "recaptcha">>
  /\ fetchCalls = <<>>
  /\ gout = [isValid |-> FALSE, reason |-> Str(<<"reCAPTCHA validation failed">>)]

ExpectedAction ==
  IF gin.action.t = "undefined" THEN Str(<<"contact_form">>) ELSE gin.action

(* C7: on a well-formed payload validateRecaptcha returns true iff success
   is true, score >= 0.3 (3000 ten-thousandths, inclusive) and action is
   the expected action. *)
C7_DecisionRule ==
  (VerifierSettled /\ WellFormed(httpRes.body)) =>
    /\ rcOut.state = "returned"
    /\ rcOut.ret <=> (/\ httpRes.body.data.success.n = 1
                      /\ httpRes.body.data.score.n >= 3000
                      /\ httpRes.body.data.action = ExpectedAction)

(* score exactly 0.3, success, matching action: valid *)
C7_Witness ==
  /\ VerifierSettled
  /\ WellFormed(httpRes.body)
  /\ httpRes.body.data.score = Num(3000)
  /\ httpRes.body.data.success = Bool(TRUE)
  /\ httpRes.body.data.action = ExpectedAction
  /\ rcOut.ret

TimingChecks == {i \in DOMAIN checks : checks[i].check = "timing"}

(* C8: validateTimestamp returns true iff 3000 <= now - timestamp <= 1800000,
   both limits inclusive; false for every negative elapsed. *)
C8_TimingWindow ==
  \A i \in TimingChecks :
    LET elapsed == checks[i].at - gin.timestamp.n
    IN /\ checks[i].ok <=> (3000 <= elapsed /\ elapsed <= 1800000)
       /\ elapsed < 0 => ~checks[i].ok

(* elapsed exactly 1800000: plausible *)
C8_Witness ==
  \E i \in TimingChecks :
    checks[i].at - gin.timestamp.n = 1800000 /\ checks[i].ok

HoneypotChecks == {i \in DOMAIN checks : checks[i].check = "honeypot"}

(* C9: validateHoneypot returns true iff the value is absent, empty or only
   whitespace. *)
C9_HoneypotClean ==
  \A i \in HoneypotChecks :
    checks[i].ok <=> (\/ gin.honeypot.t = "undefined"
                      \/ gin.honeypot.s = <<>>
                      \/ OnlyWhiteSpace(gin.honeypot.s))

(* a whitespace-only value: clean *)
C9_Witness ==
  \E i \in HoneypotChecks : gin.honeypot = Str(<<" ", " ">>) /\ checks[i].ok

----------------------------------------------------------------------------
PartnerMailbox ==
  IF env.PARTNER_EMAIL.t = "string" /\ env.PARTNER_EMAIL.s # <<>>
  THEN env.PARTNER_EMAIL ELSE Str(<<"partners@luminarcapital.com">>)

FinancingMailbox ==
  IF env.FINANCING_EMAIL.t = "string" /\ env.FINANCING_EMAIL.s # <<>>
  THEN env.FINANCING_EMAIL ELSE Str(<<"clientsuccess@luminarcapital.com">>)

(* the subjects of the requests, by the words they contain *)
FinancingPartner ==
  Str(<<"F", "i", "n", "a", "n", "c", "i", "n", "g", " ",
        "P", "a", "r", "t", "n", "e", "r">>)
WithPartner == {Str(<<"P", "a", "r", "t", "n", "e", "r">>), FinancingPartner}
WithFinancingOnly ==
  {Str(<<"M", "y", " ", "F", "i", "n", "a", "n", "c", "i", "n", "g">>)}

RoutedRecipient ==
  IF req.body.subject \in WithPartner THEN PartnerMailbox
  ELSE IF req.body.subject \in WithFinancingOnly THEN FinancingMailbox
  ELSE env.RECIPIENT_EMAIL

(* C10: for a request that passes the spam checks and carries no `to`,
   sendEmail receives (recipient, subject, htmlMessage) with the recipient
   routed on the subject: Partner first, then Financing, then
   RECIPIENT_EMAIL. *)
C10_Routing ==
  (Served /\ sendCalls # <<>> /\ req.body.to.t = "undefined") =>
    sendCalls = << [to |-> RoutedRecipient,
                    subject |-> req.body.subject,
                    htmlMessage |-> req.body.htmlMessage] >>

(* a subject with both words goes to the partner mailbox *)
C10_Witness ==
  /\ Served
  /\ req.body.to.t = "undefined"
  /\ req.body.subject = FinancingPartner
  /\ sendCalls # <<>>
  /\ sendCalls[1].to = PartnerMailbox

----------------------------------------------------------------------------
SendSettled == hpc = "done" /\ sendCalls # <<>>

(* C11: when sendEmail is invoked the answer mirrors its outcome: a result r
   gives 200 {success: true, response: r, error: null}, an error with
   message m gives 500 {success: false, response: null, error: m}; sendEmail
   is invoked exactly once. *)
C11_ResponseMirrorsSend ==
  (Served /\ sendCalls # <<>>) =>
    /\ Len(sendCalls) = 1
    /\ hpc = "awaitSend" => (sendOut.state = "pending" /\ res = <<>>)
    /\ (hpc = "done" /\ sendOut.state = "resolved") =>
         res = << [status |-> 200,
                   body |-> [success |-> TRUE, response |-> sendOut.value,
                             error |-> Null]] >>
    /\ (hpc = "done" /\ sendOut.state = "threw") =>
         res = << [status |-> 500,
                   body |-> [success |-> FALSE, response |-> Null,
                             error |-> sendOut.value]] >>
    /\ hpc = "done" => sendOut.state \in {"resolved", "threw"}

(* sendEmail resolved with the second provider result, answered as such *)
C11_Witness ==
  /\ Served
  /\ SendSettled
  /\ sendOut = [state |-> "resolved", value |-> Obj(2)]
  /\ res[1].body.response = Obj(2)

(* C12: a request whose method is not POST is answered 405 and nothing else
   happens: whatever its body (null, ill-typed fields) no check runs and
   sendEmail is not invoked. *)
C12_MethodNotAllowed ==
  (hpc # "idle" /\ req.method # "POST") =>
    /\ hpc = "done"
    /\ Len(res) = 1
    /\ res[1].status = 405
    /\ sendCalls = <<>>
    /\ sendOut.state = "none"

(* a GET whose body would have made a POST throw *)
C12_Witness ==
  /\ hpc = "done"
  /\ req.method = "GET"
  /\ req.body = Null
  /\ res[1].status = 405

----------------------------------------------------------------------------
(* {success: boolean, response: value or null, error: string or null} *)
IsEnvelope(body) ==
  /\ DOMAIN body = {"success", "response", "error"}
  /\ body.success \in BOOLEAN
  /\ body.error.t \in {"string", "null"}

(* C13: every response of the handler, on every branch, has a status in
   {200, 405, 500} and a body with the three fields success, response and
   error. *)
C13_UniformEnvelope ==
  \A i \in DOMAIN res :
    /\ res[i].status \in {200, 405, 500}
    /\ IsEnvelope(res[i].body)

(* C14: a POST request, whatever its body, is answered 500 / success: false
   only if sendEmail was invoked for it and threw. *)
C14_OnlySendFailureSurfaces ==
  (hpc # "idle" /\ req.method = "POST") =>
    \A i \in DOMAIN res :
      (res[i].status = 500 \/ res[i].body.success = FALSE) =>
        (sendCalls # <<>> /\ sendOut.state = "threw")

(* C15: the answer to a request whose mail was sent is the answer to a
   dropped request.  Every dropped request is answered
   200 {success: true, response: null, error: null} (C1, C2), so the answers
   of a dropped and of a sent request agree iff every sent request is
   answered that way too. *)
C15_SendLooksLikeDrop ==
  (Served /\ hpc = "done" /\ sendOut.state = "resolved") =>
    res = << [status |-> 200,
              body |-> [success |-> TRUE, response |-> Null, error |-> Null]] >>

----------------------------------------------------------------------------
(* C16: the verification call is bounded by a timeout: a validateSpam call
   that waits for the verification service eventually returns, also when
   the service never responds. *)
C16_VerifierCallReturns == (gpc = "awaitFetch") ~> (gpc = "done")

----------------------------------------------------------------------------
Handed(kind) == \E i \in DOMAIN handed : handed[i] = kind

(* C17: within one submission the user confirmation is handed to sendEmail
   only if the admin notification of the same submission was. *)
C17_UserOnlyAfterAdmin == Handed("user") => Handed("admin")

====
